---- MODULE Spec2Model ----
(***************************************************************************)
(* Model of load-bpf.c: main() loads a BPF program, registers a kprobe     *)
(* through the kprobe_events control file, resolves the event id, opens a  *)
(* perf event, binds the program to it, enables it and waits for SIGINT.   *)
(* The process is one sequential thread (pc); the kernel answers every     *)
(* request with success or failure; SIGINT is sent by the environment.     *)
(* Text that is formatted or parsed is a sequence of one-character         *)
(* strings.                                                                *)
(***************************************************************************)
EXTENDS Integers, Sequences, FiniteSets, TLC

\* ------------------------------------------------------------ bounds
\* getpid() answers a process id in 1..MaxPid.
MaxPid == 10
\* The id attribute file holds at most MaxIdLen characters (or is oversized).
MaxIdLen == 3

\* Signal numbers 1..MaxSig exist.
MaxSig == 15

\* ------------------------------------------------------------ constants
SIGINT == 2
LOG_BUF_SIZE == 65536
PATH_MAX == 4096
EVENT_ALIAS_SIZE == 128
KPROBE_BUF_SIZE == 256

\* ------------------------------------------------------------ text
Min(a, b) == IF a < b THEN a ELSE b

\* snprintf(dst, size, ...) keeps at most size-1 characters of the output.
snprintf(size, s) == SubSeq(s, 1, Min(Len(s), size - 1))

DecDigit == <<"0", "1", "2", "3", "4", "5", "6", "7", "8", "9">>

\* printf's %d conversion of an int.
RECURSIVE FmtNat(_)
FmtNat(n) == IF n < 10 THEN <<DecDigit[n + 1]>>
             ELSE FmtNat(n \div 10) \o <<DecDigit[(n % 10) + 1]>>

FmtD(n) == IF n < 0 THEN <<"-">> \o FmtNat(0 - n) ELSE FmtNat(n)

event_type == <<"k", "p", "r", "o", "b", "e">>
ev_name == <<"p", "_", "d", "o", "_", "s", "y", "s", "_", "o", "p", "e", "n">>
fn_name == <<"d", "o", "_", "s", "y", "s", "_", "o", "p", "e", "n">>
BPF_PROBE_ENTRY == 0
BPF_PROBE_RETURN == 1
attach_type == BPF_PROBE_ENTRY

EventsRoot == <<"/", "s", "y", "s", "/", "k", "e", "r", "n", "e", "l", "/",
                "d", "e", "b", "u", "g", "/", "t", "r", "a", "c", "i", "n", "g", "/",
                "e", "v", "e", "n", "t", "s", "/">>

\* Mutant: event_alias is declared with 20 bytes, too few for every pid.
EventAliasShortBuffer(p) ==
    snprintf(20, ev_name \o <<"_", "b", "c", "c", "_">> \o FmtD(p))

\* snprintf(event_alias, sizeof(event_alias), "%s_bcc_%d", ev_name, getpid())
EventAlias(p) ==
    snprintf(EVENT_ALIAS_SIZE, ev_name \o <<"_", "b", "c", "c", "_">> \o FmtD(p))

\* snprintf(buf, sizeof(buf), "%c:%ss/%s %s", 'p' or 'r', event_type, alias, fn_name)
ProbeLine(alias) ==
    snprintf(KPROBE_BUF_SIZE,
             <<(IF attach_type = BPF_PROBE_ENTRY THEN "p" ELSE "r")>> \o <<":">>
             \o event_type \o <<"s", "/">> \o alias \o <<" ">> \o fn_name)

\* Mutant: the event path is formatted with "%s/%s", without the plural s.
EventPathNoPlural(alias) ==
    snprintf(KPROBE_BUF_SIZE, EventsRoot \o event_type \o <<"/">> \o alias)

\* snprintf(buf, sizeof(buf), "/sys/kernel/debug/tracing/events/%ss/%s", ...)
EventPath(alias) ==
    snprintf(KPROBE_BUF_SIZE, EventsRoot \o event_type \o <<"s", "/">> \o alias)

\* snprintf(buf, sizeof(buf), "%s/id", event_path)
IdPath(event_path) == snprintf(PATH_MAX, event_path \o <<"/", "i", "d">>)

\* ------------------------------------------------------------ strtol
IsSpace(c) == c \in {" ", "\t", "\n", "\r", "\f"}

HexVal(c) ==
    CASE c = "0" -> 0 [] c = "1" -> 1 [] c = "2" -> 2 [] c = "3" -> 3
      [] c = "4" -> 4 [] c = "5" -> 5 [] c = "6" -> 6 [] c = "7" -> 7
      [] c = "8" -> 8 [] c = "9" -> 9
      [] c \in {"a", "A"} -> 10 [] c \in {"b", "B"} -> 11
      [] c \in {"c", "C"} -> 12 [] c \in {"d", "D"} -> 13
      [] c \in {"e", "E"} -> 14 [] c \in {"f", "F"} -> 15
      [] OTHER -> 99

IsDigitIn(c, base) == HexVal(c) < base

\* Position of the first non-space character at or after i.
RECURSIVE SkipSpace(_, _)
SkipSpace(s, i) ==
    IF i <= Len(s) /\ IsSpace(s[i]) THEN SkipSpace(s, i + 1) ELSE i

\* Accumulates the digits of the given base from position i on:
\* [val, n] is the value and the number of digits consumed.
RECURSIVE ParseDigits(_, _, _, _, _)
ParseDigits(s, i, base, acc, n) ==
    IF i <= Len(s) /\ IsDigitIn(s[i], base)
    THEN ParseDigits(s, i + 1, base, acc * base + HexVal(s[i]), n + 1)
    ELSE [val |-> acc, n |-> n]

\* strtol(s, NULL, 0): optional space, optional sign, base by prefix
\* (0x/0X followed by a hex digit: 16; leading 0: 8; otherwise 10).
\* [val, n]: the long returned and the number of digits converted
\* (n = 0: no conversion was performed and 0 is returned).
StrtolParts(s) ==
    LET i == SkipSpace(s, 1)
        neg == i <= Len(s) /\ s[i] = "-"
        j == IF i <= Len(s) /\ s[i] \in {"-", "+"} THEN i + 1 ELSE i
        hex == /\ j + 2 <= Len(s)
               /\ s[j] = "0"
               /\ s[j + 1] \in {"x", "X"}
               /\ IsDigitIn(s[j + 2], 16)
        base == IF hex THEN 16
                ELSE IF j <= Len(s) /\ s[j] = "0" THEN 8 ELSE 10
        k == IF hex THEN j + 2 ELSE j
        r == ParseDigits(s, k, base, 0, 0)
    IN  [val |-> IF neg THEN 0 - r.val ELSE r.val, n |-> r.n]

strtol(s) == StrtolParts(s).val

\* attr.config is a __u64: the long is converted modulo 2^64.  The value is
\* kept as four 16-bit limbs, most significant first.
Limbs(m) == <<0, 0, (m \div 65536) % 65536, m % 65536>>

U64OfLong(v) ==
    IF v >= 0 THEN Limbs(v)
    ELSE LET c == Limbs((0 - v) - 1) IN [i \in 1..4 |-> 65535 - c[i]]

\* ------------------------------------------------------------ environment
\* Characters the id attribute file may hold.
IdAlphabet == {"0", "9", "a", "x", "-", "\n"}

RECURSIVE SeqsUpTo(_, _)
SeqsUpTo(S, n) ==
    IF n = 0 THEN {<<>>}
    ELSE LET shorter == SeqsUpTo(S, n - 1)
         IN  shorter \cup {Append(t, c) : t \in {u \in shorter : Len(u) = n - 1}, c \in S}

\* A file that fills the whole read buffer.
Oversized == [i \in 1..PATH_MAX |-> "1"]

IdContents == SeqsUpTo(IdAlphabet, MaxIdLen) \cup {Oversized}

\* What the verifier may write into the log buffer (log_level = 1).
VerifierTexts == { <<"b", "a", "d", " ", "o", "p">>, <<"E", "A", "C", "C", "E", "S">> }

\* Bytes past the end of an unterminated buffer that %s runs into.
Garbage == { <<>>, <<"?">> }

StrError(e) ==
    CASE e = "OK" -> "Success"
      [] e = "ENOENT" -> "No such file or directory"
      [] e = "EACCES" -> "Permission denied"
      [] e = "EINVAL" -> "Invalid argument"
      [] e = "EPERM" -> "Operation not permitted"
      [] e = "EMFILE" -> "Too many open files"
      [] e = "EIO" -> "Input/output error"
      [] e = "ENOSPC" -> "No space left on device"
      [] OTHER -> "Unknown error"

KPROBE_EVENTS == "/sys/kernel/debug/tracing/kprobe_events"

\* What kprobe_events holds when the run begins: nothing, or the line another
\* instance (with another process id) has registered.
InitialProbes == { <<>>, <<ProbeLine(EventAlias(MaxPid + 1))>> }

\* ------------------------------------------------------------ state
VARIABLES
    pc,             \* position of the thread
    pid,            \* getpid()
    errno,
    progFd,         \* main: int progFd
    perfEventFd,    \* main: int perfEventFd
    exitCode,       \* main: int exitCode
    sig,            \* waitForSigInt: int sig
    kfd,            \* attachKprobe: int kfd
    event_alias,    \* attachKprobe: char event_alias[128]
    buf,            \* attachKprobe: char buf[256]
    pfd,            \* attachKprobe: int pfd
    efd,            \* attachTracingEvent: int efd
    ate_buf,        \* attachTracingEvent: char buf[PATH_MAX]
    attr_config,    \* attachTracingEvent: attr.config
    bpf_log_buf,    \* char bpf_log_buf[LOG_BUF_SIZE]
    fds,            \* kernel: the descriptor table, fd -> kind
    kprobe_events,  \* kernel: the lines appended to kprobe_events
    perfBound,      \* kernel: descriptor SET_BPF bound to the event, or -1
    perfEnabled,    \* kernel: the event was enabled
    sigBlocked,     \* kernel: SIGINT is in the signal mask
    sigPending,     \* kernel: SIGINT is pending
    exitStatus,     \* status main returned, -1 while it has not
    calls,          \* history: kernel requests issued, in order
    created,        \* history: descriptors the kernel handed out
    closes,         \* history: close() calls, in order
    stderr,         \* history: messages written to the error stream
    sigintAt,       \* history: pc at which SIGINT was sent, "none" before
    probes_at_start \* history: the lines of kprobe_events when the run began

locals == <<progFd, perfEventFd, exitCode, sig, kfd, event_alias, buf, pfd,
            efd, ate_buf, attr_config>>
kernel == <<fds, kprobe_events, perfBound, perfEnabled, bpf_log_buf>>
signals == <<sigBlocked, sigPending, sigintAt>>
vars == <<pc, pid, errno, locals, kernel, signals, exitStatus, calls, created,
          closes, stderr, probes_at_start>>

\* ------------------------------------------------------------ helpers
\* The lowest descriptor number not in use.
NewFd(f) ==
    CHOOSE n \in 0..Cardinality(DOMAIN f) :
        /\ n \notin DOMAIN f
        /\ \A m \in 0..(n - 1) : m \in DOMAIN f

OpenAs(f, kind) == [n \in DOMAIN f \cup {NewFd(f)} |-> IF n \in DOMAIN f THEN f[n] ELSE kind]

\* close(fd): the table afterwards, and the record of the call.
CloseIn(f, fd) == [n \in DOMAIN f \ {fd} |-> f[n]]
CloseRec(f, fd) == [fd |-> fd, kind |-> IF fd \in DOMAIN f THEN f[fd] ELSE "EBADF"]

\* A kernel request and its outcome: "OK", the errno it failed with, or
\* "SHORT_OR_FULL" for a read() whose count the caller rejects.
Call(op, err) == [op |-> op, err |-> err]

\* fprintf(stderr, fmt, ...): the format, a %s buffer argument, strerror text.
Msg(fmt, text, err) == [fmt |-> fmt, text |-> text, err |-> err]
\* perror(s)
Perror(s, e) == Msg(s, <<>>, StrError(e))

Init ==
    /\ pc = "main_load"
    /\ pid \in 1..MaxPid
    /\ errno = "OK"
    /\ progFd = -1
    /\ perfEventFd = -1
    /\ exitCode = -1
    /\ sig = 0
    /\ kfd = -1
    /\ event_alias = <<>>
    /\ buf = <<>>
    /\ pfd = -1
    /\ efd = -1
    /\ ate_buf = <<>>
    /\ attr_config = Limbs(0)
    /\ bpf_log_buf = <<>>
    /\ fds = [n \in 0..2 |-> "tty"]
    /\ kprobe_events \in InitialProbes
    /\ probes_at_start = kprobe_events
    /\ perfBound = -1
    /\ perfEnabled = FALSE
    /\ sigBlocked = FALSE
    /\ sigPending = FALSE
    /\ exitStatus = -1
    /\ calls = <<>>
    /\ created = <<>>
    /\ closes = <<>>
    /\ stderr = <<>>
    /\ sigintAt = "none"

\* ------------------------------------------------------------ decisions
\* Mutant: the load result is compared with 0 instead of -1.
LoadFailedZero(fd) == fd = 0

\* main: if (progFd == -1)
LoadFailed(fd) == fd = -1

\* Mutant: the attach result is compared with -1 by < instead of with 0.
AttachFailedOffByOne(fd) == fd < -1

\* main: if (perfEventFd < 0)
AttachFailed(fd) == fd < 0

\* Mutant: the ENOENT branch is missing, every write failure is reported alike.
WriteErrorMsgGeneric(e) == Msg("cannot attach kprobe, %s\n", <<>>, StrError(e))

\* attachKprobe: the message printed when write() fails.
WriteErrorMsg(e) ==
    IF e = "ENOENT"
    THEN Msg("cannot attach kprobe, probe entry may not exist\n", <<>>, "")
    ELSE Msg("cannot attach kprobe, %s\n", <<>>, StrError(e))

\* Mutant: an empty read is not rejected (bytes < 0 instead of bytes <= 0).
ReadFailedZeroAccepted(bytes) == bytes < 0 \/ bytes >= PATH_MAX

\* attachTracingEvent: if (bytes <= 0 || bytes >= sizeof(buf))
ReadFailed(bytes) == bytes <= 0 \/ bytes >= PATH_MAX

\* waitForSigInt: the value returned once sigwait() has returned rc and sig.
WaitExitCode(rc, s) ==
    IF rc < 0 THEN 1
    ELSE IF s = SIGINT THEN 0
    ELSE 0

\* waitForSigInt: the message printed once sigwait() has returned rc and sig.
WaitMsg(rc, s, e) ==
    IF rc < 0 THEN Perror("Error calling sigwait()", e)
    ELSE IF s = SIGINT THEN Msg("SIGINT received!\n", <<>>, "")
    ELSE Msg("Unexpected signal received: %d\n", FmtD(s), "")

\* read(efd, buf, sizeof(buf)) of a file holding content: the count returned.
ReadCount(content) == Min(Len(content), PATH_MAX)

\* The text the verifier leaves in bpf_log_buf (attr.log_size = LOG_BUF_SIZE).
LogText(t) == snprintf(LOG_BUF_SIZE, t)

SuccessLog == <<"o", "k">>

\* The notice main prints once attached (the back quotes around the command left out).
NOTICE == "Run sudo cat /sys/kernel/debug/tracing/trace_pipe in another terminal to verify bpf_trace_printk() is working as expected.\n"

\* ------------------------------------------------------------ main, stage 1
\* bpf_prog_load(): BPF_PROG_LOAD accepted, a program descriptor is returned.
BpfProgLoadOk ==
    /\ pc = "main_load"
    /\ progFd' = NewFd(fds)
    /\ fds' = OpenAs(fds, "prog")
    /\ created' = Append(created, [fd |-> NewFd(fds), kind |-> "prog"])
    /\ bpf_log_buf' = LogText(SuccessLog)
    /\ calls' = Append(calls, Call("bpf_prog_load", "OK"))
    /\ pc' = "main_load_check"
    /\ UNCHANGED <<pid, errno, perfEventFd, exitCode, sig, kfd, event_alias,
                   buf, pfd, efd, ate_buf, attr_config, kprobe_events,
                   perfBound, perfEnabled, sigBlocked, sigPending,
                   exitStatus, closes, stderr, sigintAt, probes_at_start>>

\* bpf_prog_load(): BPF_PROG_LOAD rejected, -1 is returned and the verifier
\* leaves its text in bpf_log_buf.
BpfProgLoadFail ==
    /\ pc = "main_load"
    /\ \E e \in {"EINVAL", "EACCES"}, t \in VerifierTexts :
          /\ errno' = e
          /\ calls' = Append(calls, Call("bpf_prog_load", e))
          /\ bpf_log_buf' = LogText(t)
    /\ progFd' = -1
    /\ pc' = "main_load_check"
    /\ UNCHANGED <<pid, perfEventFd, exitCode, sig, kfd, event_alias, buf,
                   pfd, efd, ate_buf, attr_config, fds, kprobe_events,
                   perfBound, perfEnabled, sigBlocked, sigPending,
                   exitStatus, created, closes, stderr, sigintAt,
                   probes_at_start>>

\* main: progFd == -1: perror and return 1.
MainLoadFailed ==
    /\ pc = "main_load_check"
    /\ LoadFailed(progFd)
    /\ stderr' = Append(stderr, Perror("Error calling bpf_prog_load()", errno))
    /\ exitStatus' = 1
    /\ pc' = "exited"
    /\ UNCHANGED <<pid, errno, progFd, perfEventFd, exitCode, sig, kfd,
                   event_alias, buf, pfd, efd, ate_buf, attr_config,
                   bpf_log_buf, fds, kprobe_events, perfBound, perfEnabled,
                   sigBlocked, sigPending, calls, created, closes, sigintAt,
                   probes_at_start>>

\* main: the program is loaded, attachKprobe(progFd) is called.
MainLoadOk ==
    /\ pc = "main_load_check"
    /\ ~LoadFailed(progFd)
    /\ pc' = "ak_open"
    /\ UNCHANGED <<pid, errno, progFd, perfEventFd, exitCode, sig, kfd,
                   event_alias, buf, pfd, efd, ate_buf, attr_config,
                   bpf_log_buf, fds, kprobe_events, perfBound, perfEnabled,
                   sigBlocked, sigPending, exitStatus, calls, created,
                   closes, stderr, sigintAt, probes_at_start>>

\* ------------------------------------------------------------ attachKprobe
\* attachKprobe: open(kprobe_events, O_WRONLY | O_APPEND) succeeds.
AkOpenOk ==
    /\ pc = "ak_open"
    /\ kfd' = NewFd(fds)
    /\ fds' = OpenAs(fds, "kprobe_events")
    /\ created' = Append(created, [fd |-> NewFd(fds), kind |-> "kprobe_events"])
    /\ calls' = Append(calls, Call("open_control", "OK"))
    /\ pc' = "ak_format"
    /\ UNCHANGED <<pid, errno, progFd, perfEventFd, exitCode, sig,
                   event_alias, buf, pfd, efd, ate_buf, attr_config,
                   bpf_log_buf, kprobe_events, perfBound, perfEnabled,
                   sigBlocked, sigPending, exitStatus, closes, stderr,
                   sigintAt, probes_at_start>>

\* attachKprobe: open(kprobe_events) fails: perror, return -1.
AkOpenFail ==
    /\ pc = "ak_open"
    /\ \E e \in {"EACCES", "ENOENT"} :
          /\ errno' = e
          /\ calls' = Append(calls, Call("open_control", e))
          /\ stderr' = Append(stderr,
                 Perror("Error opening /sys/kernel/debug/tracing/kprobe_events", e))
    /\ kfd' = -1
    /\ perfEventFd' = -1
    /\ pc' = "main_attach_check"
    /\ UNCHANGED <<pid, progFd, exitCode, sig, event_alias, buf, pfd, efd,
                   ate_buf, attr_config, bpf_log_buf, fds, kprobe_events,
                   perfBound, perfEnabled, sigBlocked, sigPending,
                   exitStatus, created, closes, sigintAt, probes_at_start>>

\* attachKprobe: the alias and the control line are formatted.
AkFormat ==
    /\ pc = "ak_format"
    /\ event_alias' = EventAlias(pid)
    /\ buf' = ProbeLine(EventAlias(pid))
    /\ pc' = "ak_write"
    /\ UNCHANGED <<pid, errno, progFd, perfEventFd, exitCode, sig, kfd, pfd,
                   efd, ate_buf, attr_config, bpf_log_buf, fds,
                   kprobe_events, perfBound, perfEnabled, sigBlocked,
                   sigPending, exitStatus, calls, created, closes, stderr,
                   sigintAt, probes_at_start>>

\* Mutant: close(kfd) is missing on the success path.
AkWriteOkNoClose ==
    /\ pc = "ak_write"
    /\ kprobe_events' = Append(kprobe_events, buf)
    /\ calls' = Append(calls, Call("write_control", "OK"))
    /\ buf' = EventPath(event_alias)
    /\ pfd' = -1
    /\ pc' = "ate_open"
    /\ UNCHANGED <<pid, errno, progFd, perfEventFd, exitCode, sig, kfd,
                   event_alias, efd, ate_buf, attr_config, bpf_log_buf, fds,
                   perfBound, perfEnabled, sigBlocked, sigPending,
                   exitStatus, created, closes, stderr, sigintAt,
                   probes_at_start>>

\* attachKprobe: write(kfd, buf) succeeds: close(kfd), the event path is
\* formatted and attachTracingEvent(progFd, buf, &pfd) is called.
AkWriteOk ==
    /\ pc = "ak_write"
    /\ kprobe_events' = Append(kprobe_events, buf)
    /\ calls' = Append(calls, Call("write_control", "OK"))
    /\ fds' = CloseIn(fds, kfd)
    /\ closes' = Append(closes, CloseRec(fds, kfd))
    /\ buf' = EventPath(event_alias)
    /\ pfd' = -1
    /\ pc' = "ate_open"
    /\ UNCHANGED <<pid, errno, progFd, perfEventFd, exitCode, sig, kfd,
                   event_alias, efd, ate_buf, attr_config, bpf_log_buf,
                   perfBound, perfEnabled, sigBlocked, sigPending,
                   exitStatus, created, stderr, sigintAt, probes_at_start>>

\* Mutant: the return after the failed write is missing, attachTracingEvent follows.
AkWriteFailContinues ==
    /\ pc = "ak_write"
    /\ \E e \in {"ENOENT", "EINVAL", "ENOSPC"} :
          /\ errno' = e
          /\ calls' = Append(calls, Call("write_control", e))
          /\ stderr' = Append(stderr, WriteErrorMsg(e))
    /\ fds' = CloseIn(fds, kfd)
    /\ closes' = Append(closes, CloseRec(fds, kfd))
    /\ buf' = EventPath(event_alias)
    /\ pc' = "ate_open"
    /\ UNCHANGED <<pid, progFd, perfEventFd, exitCode, sig, kfd, event_alias,
                   pfd, efd, ate_buf, attr_config, bpf_log_buf,
                   kprobe_events, perfBound, perfEnabled, sigBlocked,
                   sigPending, exitStatus, created, sigintAt,
                   probes_at_start>>

\* attachKprobe: write(kfd, buf) fails: message by errno, close(kfd), return -1.
AkWriteFail ==
    /\ pc = "ak_write"
    /\ \E e \in {"ENOENT", "EINVAL", "ENOSPC"} :
          /\ errno' = e
          /\ calls' = Append(calls, Call("write_control", e))
          /\ stderr' = Append(stderr, WriteErrorMsg(e))
    /\ fds' = CloseIn(fds, kfd)
    /\ closes' = Append(closes, CloseRec(fds, kfd))
    /\ perfEventFd' = -1
    /\ pc' = "main_attach_check"
    /\ UNCHANGED <<pid, progFd, exitCode, sig, kfd, event_alias, buf, pfd,
                   efd, ate_buf, attr_config, bpf_log_buf, kprobe_events,
                   perfBound, perfEnabled, sigBlocked, sigPending,
                   exitStatus, created, sigintAt, probes_at_start>>

\* ------------------------------------------------------------ attachTracingEvent
\* attachTracingEvent: open("<event_path>/id", O_RDONLY) succeeds.
AteOpenOk ==
    /\ pc = "ate_open"
    /\ ate_buf' = IdPath(buf)
    /\ efd' = NewFd(fds)
    /\ fds' = OpenAs(fds, "id")
    /\ created' = Append(created, [fd |-> NewFd(fds), kind |-> "id"])
    /\ calls' = Append(calls, Call("open_id", "OK"))
    /\ pc' = "ate_read"
    /\ UNCHANGED <<pid, errno, progFd, perfEventFd, exitCode, sig, kfd,
                   event_alias, buf, pfd, attr_config, bpf_log_buf,
                   kprobe_events, perfBound, perfEnabled, sigBlocked,
                   sigPending, exitStatus, closes, stderr, sigintAt,
                   probes_at_start>>

\* Mutant: the failed open of the id file is tried again instead of returning.
AteOpenFailRetries ==
    /\ pc = "ate_open"
    /\ ate_buf' = IdPath(buf)
    /\ errno' = "ENOENT"
    /\ efd' = -1
    /\ stderr' = Append(stderr, Msg("open(%s): %s\n", IdPath(buf), StrError("ENOENT")))
    /\ calls' = Append(calls, Call("open_id", "ENOENT"))
    /\ pc' = "ate_open"
    /\ UNCHANGED <<pid, progFd, perfEventFd, exitCode, sig, kfd, event_alias,
                   buf, pfd, attr_config, bpf_log_buf, fds, kprobe_events,
                   perfBound, perfEnabled, sigBlocked, sigPending,
                   exitStatus, created, closes, sigintAt, probes_at_start>>

\* attachTracingEvent: open of the id file fails: message, return -1.
AteOpenFail ==
    /\ pc = "ate_open"
    /\ ate_buf' = IdPath(buf)
    /\ errno' = "ENOENT"
    /\ efd' = -1
    /\ stderr' = Append(stderr, Msg("open(%s): %s\n", IdPath(buf), StrError("ENOENT")))
    /\ calls' = Append(calls, Call("open_id", "ENOENT"))
    /\ perfEventFd' = -1
    /\ pc' = "main_attach_check"
    /\ UNCHANGED <<pid, progFd, exitCode, sig, kfd, event_alias, buf, pfd,
                   attr_config, bpf_log_buf, fds, kprobe_events, perfBound,
                   perfEnabled, sigBlocked, sigPending, exitStatus, created,
                   closes, sigintAt, probes_at_start>>

\* attachTracingEvent: read() returns 1..sizeof(buf)-1 bytes: close(efd),
\* terminate the buffer, attr.config = strtol(buf, NULL, 0).
AteReadOk ==
    /\ pc = "ate_read"
    /\ \E content \in IdContents :
          /\ ~ReadFailed(ReadCount(content))
          /\ ate_buf' = SubSeq(content, 1, ReadCount(content))
          /\ attr_config' = U64OfLong(strtol(SubSeq(content, 1, ReadCount(content))))
    /\ calls' = Append(calls, Call("read_id", "OK"))
    /\ fds' = CloseIn(fds, efd)
    /\ closes' = Append(closes, CloseRec(fds, efd))
    /\ pc' = "ate_perf_open"
    /\ UNCHANGED <<pid, errno, progFd, perfEventFd, exitCode, sig, kfd,
                   event_alias, buf, pfd, efd, bpf_log_buf, kprobe_events,
                   perfBound, perfEnabled, sigBlocked, sigPending,
                   exitStatus, created, stderr, sigintAt, probes_at_start>>

\* attachTracingEvent: read() returns 0 or sizeof(buf) bytes: message,
\* close(efd), return -1.  A full buffer has no terminator: %s runs past it.
AteReadFail ==
    /\ pc = "ate_read"
    /\ \E content \in IdContents, g \in Garbage :
          /\ ReadFailed(ReadCount(content))
          /\ ReadCount(content) = 0 => g = <<>>
          /\ stderr' = Append(stderr,
                 Msg("read(%s): %s\n",
                     IF ReadCount(content) = 0 THEN ate_buf
                     ELSE SubSeq(content, 1, ReadCount(content)) \o g,
                     StrError(errno)))
    /\ calls' = Append(calls, Call("read_id", "SHORT_OR_FULL"))
    /\ fds' = CloseIn(fds, efd)
    /\ closes' = Append(closes, CloseRec(fds, efd))
    /\ perfEventFd' = -1
    /\ pc' = "main_attach_check"
    /\ UNCHANGED <<pid, errno, progFd, exitCode, sig, kfd, event_alias, buf,
                   pfd, efd, ate_buf, attr_config, bpf_log_buf,
                   kprobe_events, perfBound, perfEnabled, sigBlocked,
                   sigPending, exitStatus, created, sigintAt,
                   probes_at_start>>

\* attachTracingEvent: read() returns -1: message, close(efd), return -1.
AteReadError ==
    /\ pc = "ate_read"
    /\ ReadFailed(-1)
    /\ errno' = "EIO"
    /\ stderr' = Append(stderr, Msg("read(%s): %s\n", ate_buf, StrError("EIO")))
    /\ calls' = Append(calls, Call("read_id", "EIO"))
    /\ fds' = CloseIn(fds, efd)
    /\ closes' = Append(closes, CloseRec(fds, efd))
    /\ perfEventFd' = -1
    /\ pc' = "main_attach_check"
    /\ UNCHANGED <<pid, progFd, exitCode, sig, kfd, event_alias, buf, pfd,
                   efd, ate_buf, attr_config, bpf_log_buf, kprobe_events,
                   perfBound, perfEnabled, sigBlocked, sigPending,
                   exitStatus, created, sigintAt, probes_at_start>>

\* attachTracingEvent: perf_event_open succeeds, *pfd is the descriptor.
AtePerfOpenOk ==
    /\ pc = "ate_perf_open"
    /\ pfd' = NewFd(fds)
    /\ fds' = OpenAs(fds, "perf")
    /\ created' = Append(created, [fd |-> NewFd(fds), kind |-> "perf"])
    /\ calls' = Append(calls, Call("perf_event_open", "OK"))
    /\ pc' = "ate_set_bpf"
    /\ UNCHANGED <<pid, errno, progFd, perfEventFd, exitCode, sig, kfd,
                   event_alias, buf, efd, ate_buf, attr_config, bpf_log_buf,
                   kprobe_events, perfBound, perfEnabled, sigBlocked,
                   sigPending, exitStatus, closes, stderr, sigintAt,
                   probes_at_start>>

\* attachTracingEvent: perf_event_open fails: message, return -1.
AtePerfOpenFail ==
    /\ pc = "ate_perf_open"
    /\ \E e \in {"EACCES", "EMFILE"} :
          /\ errno' = e
          /\ calls' = Append(calls, Call("perf_event_open", e))
          /\ stderr' = Append(stderr, Msg("perf_event_open(%s/id): %s\n", buf, StrError(e)))
    /\ pfd' = -1
    /\ perfEventFd' = -1
    /\ pc' = "main_attach_check"
    /\ UNCHANGED <<pid, progFd, exitCode, sig, kfd, event_alias, buf, efd,
                   ate_buf, attr_config, bpf_log_buf, fds, kprobe_events,
                   perfBound, perfEnabled, sigBlocked, sigPending,
                   exitStatus, created, closes, sigintAt, probes_at_start>>

\* attachTracingEvent: ioctl(*pfd, PERF_EVENT_IOC_SET_BPF, progFd) succeeds.
AteSetBpfOk ==
    /\ pc = "ate_set_bpf"
    /\ perfBound' = progFd
    /\ calls' = Append(calls, Call("ioctl_set_bpf", "OK"))
    /\ pc' = "ate_enable"
    /\ UNCHANGED <<pid, errno, progFd, perfEventFd, exitCode, sig, kfd,
                   event_alias, buf, pfd, efd, ate_buf, attr_config,
                   bpf_log_buf, fds, kprobe_events, perfEnabled, sigBlocked,
                   sigPending, exitStatus, created, closes, stderr, sigintAt,
                   probes_at_start>>

\* Mutant: the return after the failed SET_BPF is missing, ENABLE follows.
AteSetBpfFailFallsThrough ==
    /\ pc = "ate_set_bpf"
    /\ errno' = "EINVAL"
    /\ stderr' = Append(stderr, Perror("ioctl(PERF_EVENT_IOC_SET_BPF)", "EINVAL"))
    /\ calls' = Append(calls, Call("ioctl_set_bpf", "EINVAL"))
    /\ pc' = "ate_enable"
    /\ UNCHANGED <<pid, progFd, perfEventFd, exitCode, sig, kfd, event_alias,
                   buf, pfd, efd, ate_buf, attr_config, bpf_log_buf, fds,
                   kprobe_events, perfBound, perfEnabled, sigBlocked,
                   sigPending, exitStatus, created, closes, sigintAt,
                   probes_at_start>>

\* attachTracingEvent: ioctl(SET_BPF) fails: perror, return -1.
AteSetBpfFail ==
    /\ pc = "ate_set_bpf"
    /\ errno' = "EINVAL"
    /\ stderr' = Append(stderr, Perror("ioctl(PERF_EVENT_IOC_SET_BPF)", "EINVAL"))
    /\ calls' = Append(calls, Call("ioctl_set_bpf", "EINVAL"))
    /\ perfEventFd' = -1
    /\ pc' = "main_attach_check"
    /\ UNCHANGED <<pid, progFd, exitCode, sig, kfd, event_alias, buf, pfd,
                   efd, ate_buf, attr_config, bpf_log_buf, fds,
                   kprobe_events, perfBound, perfEnabled, sigBlocked,
                   sigPending, exitStatus, created, closes, sigintAt,
                   probes_at_start>>

\* attachTracingEvent: ioctl(*pfd, PERF_EVENT_IOC_ENABLE, 0) succeeds: return 0,
\* and attachKprobe returns pfd.
AteEnableOk ==
    /\ pc = "ate_enable"
    /\ perfEnabled' = TRUE
    /\ calls' = Append(calls, Call("ioctl_enable", "OK"))
    /\ perfEventFd' = pfd
    /\ pc' = "main_attach_check"
    /\ UNCHANGED <<pid, errno, progFd, exitCode, sig, kfd, event_alias, buf,
                   pfd, efd, ate_buf, attr_config, bpf_log_buf, fds,
                   kprobe_events, perfBound, sigBlocked, sigPending,
                   exitStatus, created, closes, stderr, sigintAt,
                   probes_at_start>>

\* Mutant: the return after the failed ENABLE is missing, 0 is returned.
AteEnableFailReturnsPfd ==
    /\ pc = "ate_enable"
    /\ errno' = "EINVAL"
    /\ stderr' = Append(stderr, Perror("ioctl(PERF_EVENT_IOC_ENABLE)", "EINVAL"))
    /\ calls' = Append(calls, Call("ioctl_enable", "EINVAL"))
    /\ perfEventFd' = pfd
    /\ pc' = "main_attach_check"
    /\ UNCHANGED <<pid, progFd, exitCode, sig, kfd, event_alias, buf, pfd,
                   efd, ate_buf, attr_config, bpf_log_buf, fds,
                   kprobe_events, perfBound, perfEnabled, sigBlocked,
                   sigPending, exitStatus, created, closes, sigintAt,
                   probes_at_start>>

\* attachTracingEvent: ioctl(ENABLE) fails: perror, return -1.
AteEnableFail ==
    /\ pc = "ate_enable"
    /\ errno' = "EINVAL"
    /\ stderr' = Append(stderr, Perror("ioctl(PERF_EVENT_IOC_ENABLE)", "EINVAL"))
    /\ calls' = Append(calls, Call("ioctl_enable", "EINVAL"))
    /\ perfEventFd' = -1
    /\ pc' = "main_attach_check"
    /\ UNCHANGED <<pid, progFd, exitCode, sig, kfd, event_alias, buf, pfd,
                   efd, ate_buf, attr_config, bpf_log_buf, fds,
                   kprobe_events, perfBound, perfEnabled, sigBlocked,
                   sigPending, exitStatus, created, closes, sigintAt,
                   probes_at_start>>

\* ------------------------------------------------------------ main, after attachKprobe
\* main: perfEventFd < 0: perror, close(progFd), return 1.
MainAttachFailed ==
    /\ pc = "main_attach_check"
    /\ AttachFailed(perfEventFd)
    /\ stderr' = Append(stderr, Perror("Error calling attachKprobe()", errno))
    /\ fds' = CloseIn(fds, progFd)
    /\ closes' = Append(closes, CloseRec(fds, progFd))
    /\ exitStatus' = 1
    /\ pc' = "exited"
    /\ UNCHANGED <<pid, errno, progFd, perfEventFd, exitCode, sig, kfd,
                   event_alias, buf, pfd, efd, ate_buf, attr_config,
                   bpf_log_buf, kprobe_events, perfBound, perfEnabled,
                   sigBlocked, sigPending, calls, created, sigintAt,
                   probes_at_start>>

\* main: the notice is printed and waitForSigInt() is called.
MainAttachOk ==
    /\ pc = "main_attach_check"
    /\ ~AttachFailed(perfEventFd)
    /\ stderr' = Append(stderr, Msg(NOTICE, <<>>, ""))
    /\ pc' = "wait_mask"
    /\ UNCHANGED <<pid, errno, progFd, perfEventFd, exitCode, sig, kfd,
                   event_alias, buf, pfd, efd, ate_buf, attr_config,
                   bpf_log_buf, fds, kprobe_events, perfBound, perfEnabled,
                   sigBlocked, sigPending, exitStatus, calls, created,
                   closes, sigintAt, probes_at_start>>

\* waitForSigInt without the sigprocmask() call: SIGINT stays unblocked.
WaitBlockNoMask ==
    /\ pc = "wait_mask"
    /\ pc' = "wait_sigwait"
    /\ UNCHANGED <<pid, errno, progFd, perfEventFd, exitCode, sig, kfd,
                   event_alias, buf, pfd, efd, ate_buf, attr_config,
                   bpf_log_buf, fds, kprobe_events, perfBound, perfEnabled,
                   sigBlocked, sigPending, exitStatus, calls, created,
                   closes, stderr, sigintAt, probes_at_start>>

\* waitForSigInt: sigemptyset, sigaddset(SIGINT), sigprocmask(SIG_BLOCK).
\* With these arguments neither sigaddset nor sigprocmask can fail, so the
\* two early returns of 1 have no step here.
WaitBlock ==
    /\ pc = "wait_mask"
    /\ sigBlocked' = TRUE
    /\ pc' = "wait_sigwait"
    /\ UNCHANGED <<pid, errno, progFd, perfEventFd, exitCode, sig, kfd,
                   event_alias, buf, pfd, efd, ate_buf, attr_config,
                   bpf_log_buf, fds, kprobe_events, perfBound, perfEnabled,
                   sigPending, exitStatus, calls, created, closes, stderr,
                   sigintAt, probes_at_start>>

\* waitForSigInt: sigwait() returns the pending SIGINT: message, return 0.
\* The set holds SIGINT alone, so sigwait returns no other signal.
WaitSigwait ==
    /\ pc = "wait_sigwait"
    /\ sigPending
    /\ sigPending' = FALSE
    /\ sig' = SIGINT
    /\ stderr' = Append(stderr, WaitMsg(0, SIGINT, errno))
    /\ exitCode' = WaitExitCode(0, SIGINT)
    /\ pc' = "main_close_perf"
    /\ UNCHANGED <<pid, errno, progFd, perfEventFd, kfd, event_alias, buf,
                   pfd, efd, ate_buf, attr_config, bpf_log_buf, fds,
                   kprobe_events, perfBound, perfEnabled, sigBlocked,
                   exitStatus, calls, created, closes, sigintAt,
                   probes_at_start>>

\* waitForSigInt under a kernel whose sigwait() stores a signal number other
\* than SIGINT in sig: the branch of lines 84-87.  Spec has no such step (the
\* set holds SIGINT alone); AnySignalSpec adds it.
WaitSigwaitOther ==
    /\ pc = "wait_sigwait"
    /\ \E s \in (1..MaxSig) \ {SIGINT} :
          /\ sig' = s
          /\ stderr' = Append(stderr, WaitMsg(0, s, errno))
          /\ exitCode' = WaitExitCode(0, s)
    /\ pc' = "main_close_perf"
    /\ UNCHANGED <<pid, errno, progFd, perfEventFd, kfd, event_alias, buf,
                   pfd, efd, ate_buf, attr_config, bpf_log_buf, fds,
                   kprobe_events, perfBound, perfEnabled, sigBlocked,
                   sigPending, exitStatus, calls, created, closes, sigintAt,
                   probes_at_start>>

\* main: close(perfEventFd).
MainClosePerf ==
    /\ pc = "main_close_perf"
    /\ fds' = CloseIn(fds, perfEventFd)
    /\ closes' = Append(closes, CloseRec(fds, perfEventFd))
    /\ pc' = "main_close_prog"
    /\ UNCHANGED <<pid, errno, progFd, perfEventFd, exitCode, sig, kfd,
                   event_alias, buf, pfd, efd, ate_buf, attr_config,
                   bpf_log_buf, kprobe_events, perfBound, perfEnabled,
                   sigBlocked, sigPending, exitStatus, calls, created,
                   stderr, sigintAt, probes_at_start>>

\* Mutant: the probe is removed from kprobe_events on the way out.
MainCloseProgUnregisters ==
    /\ pc = "main_close_prog"
    /\ fds' = CloseIn(fds, progFd)
    /\ closes' = Append(closes, CloseRec(fds, progFd))
    /\ exitStatus' = exitCode
    /\ kprobe_events' = probes_at_start
    /\ pc' = "exited"
    /\ UNCHANGED <<pid, errno, progFd, perfEventFd, exitCode, sig, kfd,
                   event_alias, buf, pfd, efd, ate_buf, attr_config,
                   bpf_log_buf, perfBound, perfEnabled, sigBlocked,
                   sigPending, calls, created, stderr, sigintAt,
                   probes_at_start>>

\* main: close(progFd); return exitCode.
MainCloseProg ==
    /\ pc = "main_close_prog"
    /\ fds' = CloseIn(fds, progFd)
    /\ closes' = Append(closes, CloseRec(fds, progFd))
    /\ exitStatus' = exitCode
    /\ pc' = "exited"
    /\ UNCHANGED <<pid, errno, progFd, perfEventFd, exitCode, sig, kfd,
                   event_alias, buf, pfd, efd, ate_buf, attr_config,
                   bpf_log_buf, kprobe_events, perfBound, perfEnabled,
                   sigBlocked, sigPending, calls, created, stderr, sigintAt,
                   probes_at_start>>

\* ------------------------------------------------------------ environment
\* SIGINT is sent while it is blocked: it stays pending.
SigIntBlocked ==
    /\ pc \notin {"exited", "killed"}
    /\ sigBlocked
    /\ ~sigPending
    /\ sigPending' = TRUE
    /\ sigintAt' = pc
    /\ UNCHANGED <<pc, pid, errno, progFd, perfEventFd, exitCode, sig, kfd,
                   event_alias, buf, pfd, efd, ate_buf, attr_config,
                   bpf_log_buf, fds, kprobe_events, perfBound, perfEnabled,
                   sigBlocked, exitStatus, calls, created, closes, stderr,
                   probes_at_start>>

\* SIGINT is sent while it is not blocked: the default action ends the process.
SigIntDefault ==
    /\ pc \notin {"exited", "killed"}
    /\ ~sigBlocked
    /\ sigintAt' = pc
    /\ pc' = "killed"
    /\ UNCHANGED <<pid, errno, progFd, perfEventFd, exitCode, sig, kfd,
                   event_alias, buf, pfd, efd, ate_buf, attr_config,
                   bpf_log_buf, fds, kprobe_events, perfBound, perfEnabled,
                   sigBlocked, sigPending, exitStatus, calls, created,
                   closes, stderr, probes_at_start>>

Proc ==
    \/ BpfProgLoadOk \/ BpfProgLoadFail \/ MainLoadFailed \/ MainLoadOk
    \/ AkOpenOk \/ AkOpenFail \/ AkFormat \/ AkWriteOk \/ AkWriteFail
    \/ AteOpenOk \/ AteOpenFail \/ AteReadOk \/ AteReadFail \/ AteReadError
    \/ AtePerfOpenOk \/ AtePerfOpenFail \/ AteSetBpfOk \/ AteSetBpfFail
    \/ AteEnableOk \/ AteEnableFail
    \/ MainAttachFailed \/ MainAttachOk \/ WaitBlock \/ WaitSigwait
    \/ MainClosePerf \/ MainCloseProg

Next == Proc \/ SigIntBlocked \/ SigIntDefault

Spec == Init /\ [][Next]_vars

\* The thread always takes its next step when it has one; nothing forces the
\* environment to send SIGINT.
FairSpec == Spec /\ WF_vars(Proc)

\* The program under a kernel whose sigwait() may store any signal number.
AnySignalNext == Next \/ WaitSigwaitOther

AnySignalSpec == Init /\ [][AnySignalNext]_vars

\* ------------------------------------------------------------ history predicates
Issued(op) == \E i \in DOMAIN calls : calls[i].op = op
Succeeded(op) == \E i \in DOMAIN calls : calls[i] = Call(op, "OK")
Failed(op) == \E i \in DOMAIN calls : calls[i].op = op /\ calls[i].err # "OK"
FailedWith(op, e) == \E i \in DOMAIN calls : calls[i] = Call(op, e)
SetupFailed == \E i \in DOMAIN calls : calls[i].err # "OK"

NCreated(kind) == Cardinality({i \in DOMAIN created : created[i].kind = kind})
NCloseCalls(kind) == Cardinality({i \in DOMAIN closes : closes[i].kind = kind})
IsOpen(fd, kind) == fd \in DOMAIN fds /\ fds[fd] = kind

Printed(m) == \E i \in DOMAIN stderr : stderr[i] = m
PrintedFmt(fmt) == \E i \in DOMAIN stderr : stderr[i].fmt = fmt

TargetAbsentMsg == Msg("cannot attach kprobe, probe entry may not exist\n", <<>>, "")
GenericWriteFmt == "cannot attach kprobe, %s\n"

Stage2To4Ops == {"open_control", "write_control", "open_id", "read_id",
                 "perf_event_open", "ioctl_set_bpf", "ioctl_enable"}
WaitPcs == {"wait_mask", "wait_sigwait"}

\* All four setup stages have succeeded (ENABLE is the last request).
SetupDone == Succeeded("ioctl_enable")

\* main has returned 0 after closing both descriptors.
CleanShutdown ==
    /\ pc = "exited"
    /\ exitStatus = 0
    /\ NCloseCalls("perf") = 1
    /\ NCloseCalls("prog") = 1

\* Both descriptors are open, the line is registered, the event bound and enabled.
FullyWired ==
    /\ IsOpen(progFd, "prog")
    /\ IsOpen(perfEventFd, "perf")
    /\ progFd # perfEventFd
    /\ kprobe_events = Append(probes_at_start, ProbeLine(EventAlias(pid)))
    /\ perfBound = progFd
    /\ perfEnabled

\* strtol converts no digit of the text.
Unparsable(text) == StrtolParts(text).n = 0

\* ------------------------------------------------------------ claims

\* C1: when main returns, the close calls made on the program descriptor and
\* on the sampling-event descriptor are exactly as many as the descriptors of
\* each kind that were created, and no close hits a descriptor already closed.
\* (Stated as claimed; the code violates it when SET_BPF or ENABLE fails.)
C1_ReleaseMatchesCreate ==
    pc = "exited" =>
        /\ NCloseCalls("prog") = NCreated("prog")
        /\ NCloseCalls("perf") = NCreated("perf")
        /\ NCloseCalls("EBADF") = 0

\* C2: once bpf_prog_load has failed, the load is the only kernel request of
\* the run (no control-file open or write, no id read, no perf_event_open, no
\* ioctl), the thread never enters attachKprobe, and main returns 1.
C2_LoadFailureStopsPipeline ==
    Failed("bpf_prog_load") =>
        /\ \A i \in DOMAIN calls : calls[i].op \notin Stage2To4Ops
        /\ kprobe_events = probes_at_start
        /\ pc \in {"main_load_check", "exited", "killed"}
        /\ pc = "exited" => exitStatus = 1

C2_Witness == pc = "exited" /\ Failed("bpf_prog_load") /\ exitStatus = 1

\* C3: once the control-file write has failed with ENOENT, the 'probe entry
\* may not exist' message has been printed and the generic write message has
\* not, no id open/read, perf_event_open or ioctl is ever issued, the program
\* descriptor is closed at most once, and when main returns it has been
\* closed exactly once and the status is not 0.
C3_TargetAbsent ==
    FailedWith("write_control", "ENOENT") =>
        /\ Printed(TargetAbsentMsg)
        /\ ~PrintedFmt(GenericWriteFmt)
        /\ \A i \in DOMAIN calls :
              calls[i].op \notin {"open_id", "read_id", "perf_event_open",
                                  "ioctl_set_bpf", "ioctl_enable"}
        /\ NCloseCalls("prog") <= 1
        /\ NCloseCalls("EBADF") = 0
        /\ pc = "exited" =>
              /\ exitStatus # 0
              /\ NCloseCalls("prog") = 1
              /\ ~IsOpen(progFd, "prog")

C3_Witness ==
    /\ pc = "exited"
    /\ FailedWith("write_control", "ENOENT")
    /\ NCloseCalls("prog") = 1

\* C4: if SIGINT is sent after all four setup stages have succeeded, the
\* process ends by returning from main with status 0, having closed the
\* sampling-event descriptor and the program descriptor: it never ends in
\* another way.
\* (Stated as claimed; the code violates it for a SIGINT sent before
\* sigprocmask has blocked the signal.)
C4_SigintAfterSetupExitsZero ==
    (/\ SetupDone
     /\ sigintAt \in {"main_attach_check", "wait_mask", "wait_sigwait"}
     /\ pc \in {"exited", "killed"}) => CleanShutdown

\* C5: once any setup request has failed, the thread never reaches the signal
\* wait, the notice is never printed, the status is never 0, and when main
\* returns the status is 1 and at least one message is on the error stream.
C5_SetupFailureIsFatal ==
    SetupFailed =>
        /\ pc \notin WaitPcs \cup {"main_close_perf", "main_close_prog"}
        /\ ~PrintedFmt(NOTICE)
        /\ exitStatus # 0
        /\ pc = "exited" => (exitStatus = 1 /\ Len(stderr) >= 1)

C5_Witness ==
    /\ pc = "exited"
    /\ Failed("ioctl_enable")
    /\ exitStatus = 1
    /\ Len(stderr) >= 2

\* C6: when main returns after a failed load, the text the verifier left in
\* bpf_log_buf is part of some message on the error stream.
\* (Stated as claimed; the code never prints bpf_log_buf.)
C6_VerifierTextSurfaced ==
    (pc = "exited" /\ Failed("bpf_prog_load")) =>
        \E i \in DOMAIN stderr : stderr[i].text = bpf_log_buf

\* C7: whenever the thread is in waitForSigInt before the signal arrives,
\* the notice is printed, the program descriptor and the sampling-event
\* descriptor are open, the probe line is in the control file, and the event
\* is bound to the program descriptor and enabled; and the notice is never
\* printed unless the line was written and the event bound and enabled.
C7_WaitingImpliesWired ==
    /\ pc \in WaitPcs => (PrintedFmt(NOTICE) /\ FullyWired)
    /\ PrintedFmt(NOTICE) =>
          /\ Succeeded("write_control")
          /\ Succeeded("ioctl_set_bpf")
          /\ Succeeded("ioctl_enable")
          /\ perfBound = progFd
          /\ perfEnabled

C7_Witness == pc = "wait_sigwait" /\ ~sigPending /\ FullyWired

\* C8: every ENABLE ioctl directly follows a successful SET_BPF ioctl, every
\* SET_BPF ioctl directly follows a successful perf_event_open, and
\* attachTracingEvent has returned success only if the event is bound to the
\* program descriptor and enabled.
C8_BindThenEnable ==
    /\ \A i \in DOMAIN calls :
          calls[i].op = "ioctl_enable" =>
              i > 1 /\ calls[i - 1] = Call("ioctl_set_bpf", "OK")
    /\ \A i \in DOMAIN calls :
          calls[i].op = "ioctl_set_bpf" =>
              i > 1 /\ calls[i - 1] = Call("perf_event_open", "OK")
    /\ perfEnabled => perfBound = progFd
    /\ perfEventFd >= 0 =>
          /\ Succeeded("ioctl_set_bpf")
          /\ Succeeded("ioctl_enable")
          /\ perfBound = progFd
          /\ perfEnabled

C8_Witness ==
    /\ pc = "main_attach_check"
    /\ perfEventFd >= 0
    /\ Succeeded("ioctl_enable")

\* C9: the sampling-event descriptor is closed before the program descriptor,
\* and the program descriptor is never closed while a sampling-event
\* descriptor of the run is still open.
\* (Stated as claimed; the code violates the second part on the paths where
\* C1's leak happens.)
C9_EventClosedBeforeProgram ==
    /\ \A i \in DOMAIN closes : \A j \in DOMAIN closes :
          (closes[i].kind = "perf" /\ closes[j].kind = "prog") => i < j
    /\ NCloseCalls("prog") > 0 => \A n \in DOMAIN fds : fds[n] # "perf"

\* C10: if the text read from the id file does not parse as an integer
\* (strtol converts no digit), perf_event_open is never called and the attach
\* call does not return success.
\* (Stated as claimed; the code does not check strtol's conversion.)
C10_UnparsableIdRejected ==
    (Succeeded("read_id") /\ Unparsable(ate_buf)) =>
        /\ ~Issued("perf_event_open")
        /\ perfEventFd < 0

\* The kernel requests of a run, in program order.
SetupOrder == <<"bpf_prog_load", "open_control", "write_control", "open_id",
                "read_id", "perf_event_open", "ioctl_set_bpf", "ioctl_enable">>

C12_NoRetry ==
    /\ Len(calls) <= Len(SetupOrder)
    /\ \A i \in DOMAIN calls : calls[i].op = SetupOrder[i]
    /\ \A i \in DOMAIN calls : calls[i].err # "OK" => i = Len(calls)

C12_Witness ==
    /\ pc = "exited"
    /\ Failed("open_id")
    /\ Len(calls) = 4

\* C13: perf_event_open is issued only after a successful load, a successful
\* append of the probe line and a successful read of the id, with the program
\* descriptor open when it is called; at most one sampling-event descriptor
\* is created and at most one SET_BPF binds the program descriptor.
C13_EventAfterPrerequisites ==
    /\ \A i \in DOMAIN calls :
          calls[i].op = "perf_event_open" =>
              /\ \E j \in 1..(i - 1) : calls[j] = Call("bpf_prog_load", "OK")
              /\ \E j \in 1..(i - 1) : calls[j] = Call("write_control", "OK")
              /\ \E j \in 1..(i - 1) : calls[j] = Call("read_id", "OK")
    /\ pc = "ate_perf_open" =>
          /\ IsOpen(progFd, "prog")
          /\ kprobe_events = Append(probes_at_start, ProbeLine(EventAlias(pid)))
          /\ Succeeded("read_id")
    /\ NCreated("perf") <= 1
    /\ Cardinality({i \in DOMAIN calls : calls[i] = Call("ioctl_set_bpf", "OK")}) <= 1
    /\ NCreated("perf") = 1 => NCreated("prog") = 1

C13_Witness ==
    /\ Succeeded("perf_event_open")
    /\ Succeeded("ioctl_set_bpf")
    /\ NCreated("perf") = 1

\* The position of the thread, or the one it was killed at.
At == IF pc = "killed" THEN sigintAt ELSE pc

\* The text of the alias for process id q, written out.
AliasText(q) ==
    <<"p", "_", "d", "o", "_", "s", "y", "s", "_", "o", "p", "e", "n",
      "_", "b", "c", "c", "_">> \o FmtD(q)

\* "p:kprobes/<alias> do_sys_open"
LineText(alias) ==
    <<"p", ":", "k", "p", "r", "o", "b", "e", "s", "/">> \o alias
    \o <<" ", "d", "o", "_", "s", "y", "s", "_", "o", "p", "e", "n">>

\* "/sys/kernel/debug/tracing/events/kprobes/<alias>/id"
IdPathText(alias) ==
    <<"/", "s", "y", "s", "/", "k", "e", "r", "n", "e", "l", "/",
      "d", "e", "b", "u", "g", "/", "t", "r", "a", "c", "i", "n", "g", "/",
      "e", "v", "e", "n", "t", "s", "/", "k", "p", "r", "o", "b", "e", "s", "/">>
    \o alias \o <<"/", "i", "d">>

\* The alias, the event path and the control line of every process id in range.
AliasOf == [q \in 1..MaxPid |-> EventAlias(q)]
PathOf == [q \in 1..MaxPid |-> EventPath(EventAlias(q))]
LineOf == [q \in 1..MaxPid |-> ProbeLine(EventAlias(q))]

\* C14: the alias and the event path this run derives from its process id
\* differ from the alias and the event path derived for every other process
\* id.
C14_AliasInjectiveInPid ==
    event_alias # <<>> =>
        \A q \in (1..MaxPid) \ {pid} :
            /\ event_alias # AliasOf[q]
            /\ EventPath(event_alias) # PathOf[q]
            /\ ProbeLine(event_alias) # LineOf[q]
            /\ At \in {"ate_open"} => buf # PathOf[q]

C14_Witness ==
    /\ pc = "ate_open"
    /\ pid = MaxPid
    /\ buf = EventPath(EventAlias(MaxPid))

\* C15: once the append has succeeded the control file holds, in every later
\* state (clean shutdown and failed attachment included), the lines it held
\* when the run began followed by the line of this run; before that it holds
\* what it held when the run began; the file is written at most once.
C15_ProbeStaysRegistered ==
    /\ Succeeded("write_control") =>
          kprobe_events = Append(probes_at_start, ProbeLine(EventAlias(pid)))
    /\ ~Succeeded("write_control") => kprobe_events = probes_at_start
    /\ Cardinality({i \in DOMAIN calls : calls[i].op = "write_control"}) <= 1

C15_Witness ==
    /\ pc = "exited"
    /\ exitStatus = 0
    /\ probes_at_start # <<>>
    /\ kprobe_events = Append(probes_at_start, ProbeLine(EventAlias(pid)))

\* C16: the line appended to the control file is "p:kprobes/<alias>
\* do_sys_open" and the id file opened afterwards is
\* "/sys/kernel/debug/tracing/events/kprobes/<alias>/id", with the same alias
\* p_do_sys_open_bcc_<pid> in both.
C16_LineAndIdPathCorrelated ==
    /\ kprobe_events # probes_at_start =>
          kprobe_events = Append(probes_at_start, LineText(AliasText(pid)))
    /\ At = "ate_read" => ate_buf = IdPathText(AliasText(pid))
    /\ Failed("open_id") => ate_buf = IdPathText(AliasText(pid))
    /\ Issued("open_id") =>
          kprobe_events = Append(probes_at_start, LineText(AliasText(pid)))

C16_Witness ==
    /\ pc = "ate_read"
    /\ pid = MaxPid
    /\ kprobe_events = Append(probes_at_start, LineText(AliasText(MaxPid)))
    /\ ate_buf = IdPathText(AliasText(MaxPid))

\* C17: a read of the id file that fails, returns nothing or fills the buffer
\* makes the attach fail: perf_event_open is never issued and no
\* sampling-event descriptor is created; perf_event_open is issued only after
\* a read of 1..PATH_MAX-1 bytes.
C17_BadReadRejected ==
    /\ Failed("read_id") =>
          /\ ~Issued("perf_event_open")
          /\ NCreated("perf") = 0
          /\ perfEventFd < 0
          /\ At \in {"main_attach_check", "exited"}
    /\ (Issued("perf_event_open") \/ At = "ate_perf_open") =>
          /\ Succeeded("read_id")
          /\ Len(ate_buf) >= 1
          /\ Len(ate_buf) <= PATH_MAX - 1

C17_Witness ==
    /\ pc = "exited"
    /\ FailedWith("read_id", "SHORT_OR_FULL")
    /\ \E i \in DOMAIN stderr : Len(stderr[i].text) >= PATH_MAX

\* The kinds of the descriptors that are open.
OpenKinds == {fds[n] : n \in DOMAIN fds}

\* C18: the control-file descriptor is open only between its open and the
\* write, the id-file descriptor only between its open and the read; each is
\* closed exactly once when created, and no close hits a closed descriptor.
C18_ShortLivedDescriptorsClosed ==
    /\ At \notin {"ak_format", "ak_write"} =>
          /\ "kprobe_events" \notin OpenKinds
          /\ NCloseCalls("kprobe_events") = NCreated("kprobe_events")
    /\ At # "ate_read" =>
          /\ "id" \notin OpenKinds
          /\ NCloseCalls("id") = NCreated("id")
    /\ NCreated("kprobe_events") <= 1
    /\ NCreated("id") <= 1
    /\ NCloseCalls("EBADF") = 0

C18_Witness ==
    /\ pc = "wait_sigwait"
    /\ NCloseCalls("kprobe_events") = 1
    /\ NCloseCalls("id") = 1
    /\ OpenKinds = {"tty", "prog", "perf"}

\* The SIGINT was sent at a point where the mask of waitForSigInt was not yet
\* in force.
SentBeforeBlock == sigintAt \notin {"none", "wait_sigwait", "main_close_perf",
                                    "main_close_prog"}

SigintMsg == Msg("SIGINT received!\n", <<>>, "")

\* A SIGINT sent between sigprocmask() and the return of sigwait() is kept:
\* it does not end the process, it is pending while sigwait has not returned,
\* and sigwait then returns it with exit code 0.
SigintKept ==
    sigintAt = "wait_sigwait" =>
        /\ pc # "killed"
        /\ pc = "wait_sigwait" => sigPending
        /\ pc \in {"main_close_perf", "main_close_prog", "exited"} =>
              /\ sig = SIGINT
              /\ exitCode = 0
              /\ Printed(SigintMsg)
        /\ pc = "exited" => CleanShutdown

\* A SIGINT sent before the mask is in force ends the process at once: no
\* exit status from main, neither descriptor closed, no message.
SigintUnhandled ==
    pc = "killed" =>
        /\ SentBeforeBlock
        /\ ~sigBlocked
        /\ exitStatus = -1
        /\ NCloseCalls("perf") = 0
        /\ NCloseCalls("prog") = 0
        /\ ~Printed(SigintMsg)

\* C19: a SIGINT sent after sigprocmask() and before sigwait() has returned
\* is not lost: it stays pending, sigwait returns it, and the process goes on
\* to close both descriptors and exit with status 0; a SIGINT sent before the
\* mask is in force ends the process without the closes of main.
C19_PendingSigintNotLost ==
    /\ [](SigintKept /\ SigintUnhandled)
    /\ (pc = "wait_sigwait" /\ sigPending) ~> CleanShutdown

C19_Witness ==
    /\ CleanShutdown
    /\ sigintAt = "wait_sigwait"
    /\ sig = SIGINT
    /\ probes_at_start # <<>>

====
